---- MODULE Spec2Model ----
(***************************************************************************)
(* Model of the soccer ball simulation core (soccer-fyrox/src/ball.rs):    *)
(* ball_physics, steps, targetable, avg, on_pitch, Ball::collide and       *)
(* Ball::update; and of the firing of orbs in the cavern player's update   *)
(* (cavern-macroquad-naive/src/player.rs).                                 *)
(*                                                                         *)
(* Numbers.  The code computes in f32, and so does the model: an f32 is    *)
(* the record [s, m, e] of value s * m * 2^e with s = 1 or -1 and a        *)
(* mantissa of 24 bits, 2^23 <= m < 2^24, or a subnormal one, m < 2^23 at  *)
(* e = -149; 0.0 and -0.0 (m = 0), the infinities and NaN are records of   *)
(* their own.  Every operation rounds its exact result to the nearest f32, *)
(* ties to the even mantissa, as IEEE 754 has it.                          *)
(* Pool handles are 1..NPlayers, iterated in handle order; 0 is None.      *)
(***************************************************************************)
EXTENDS Integers, Sequences, FiniteSets, TLC

\* ---------------------------------------------------------------- bounds
NPlayers == 3          \* size of the player pool
MaxUpdates == 2        \* Ball::update calls explored per behaviour
MaxExpired == 2        \* a player's timer is not lowered below -MaxExpired
MaxFreeUpdates == 3    \* Ball::update calls explored from a free ball at a goal
MaxCarryUpdates == 10  \* Ball::update calls explored of a ball being carried
CarrySettle == 7       \* Ball::update calls after which a ball carried from CarrySpots has settled
MaxPlayerUpdates == 12 \* Player::update calls explored per behaviour (cavern)
MaxStepDist == 24      \* steps(): distances up to MaxStepDist * StepGrain pixels
MaxPhysVel == 3        \* ball_physics: |vel| up to MaxPhysVel half pixels

\* ------------------------------------------------------------- constants
HALF_LEVEL_W == 500
HALF_LEVEL_H == 700
HALF_PITCH_W == 442
HALF_PITCH_H == 622
GOAL_WIDTH == 186
GOAL_DEPTH == 20
HALF_GOAL_W == 93
DRIBBLE_DIST_X == 18
DRIBBLE_DIST_Y == 16
DRAG_M == 16441672     \* DRAG = 0.98f32 = DRAG_M * 2^-24
KICK_STRENGTH_2 == 23  \* KICK_STRENGTH = 11.5 = KICK_STRENGTH_2 / 2
SIN_45_M == 11863283   \* sin(pi/4) as f32 = SIN_45_M * 2^-24
DOT_MIN_M == 13421773  \* 0.8f32 = DOT_MIN_M * 2^-24
HOLDOFF_PLAYER == 60   \* owner.timer = 60 / ball_owner.timer = 60
PASS_RANGE == 300      \* d0 < 300.
KICK_OFF_SPEED == 3    \* angle_to_vec(owner.dir) * 3.

NoOwner == 0
Handles == 1..NPlayers
Teams == {0, 1}

Abs(n) == IF n < 0 THEN -n ELSE n
Sgn(n) == IF n < 0 THEN -1 ELSE IF n > 0 THEN 1 ELSE 0

\* ------------------------------------------------------- f32 arithmetic
\* the position of the highest bit of n, 0 < n < 2^31, by bisection
Log2(n) ==
    IF n < 32768
    THEN IF n < 128
         THEN IF n < 8
              THEN (IF n < 2 THEN 0 ELSE (IF n < 4 THEN 1 ELSE 2))
              ELSE (IF n < 32 THEN (IF n < 16 THEN 3 ELSE 4) ELSE (IF n < 64 THEN 5 ELSE 6))
         ELSE IF n < 2048
              THEN (IF n < 512 THEN (IF n < 256 THEN 7 ELSE 8) ELSE (IF n < 1024 THEN 9 ELSE 10))
              ELSE (IF n < 8192 THEN (IF n < 4096 THEN 11 ELSE 12) ELSE (IF n < 16384 THEN 13 ELSE 14))
    ELSE IF n < 8388608
         THEN IF n < 524288
              THEN (IF n < 131072 THEN (IF n < 65536 THEN 15 ELSE 16) ELSE (IF n < 262144 THEN 17 ELSE 18))
              ELSE (IF n < 2097152 THEN (IF n < 1048576 THEN 19 ELSE 20) ELSE (IF n < 4194304 THEN 21 ELSE 22))
         ELSE IF n < 134217728
              THEN (IF n < 33554432 THEN (IF n < 16777216 THEN 23 ELSE 24) ELSE (IF n < 67108864 THEN 25 ELSE 26))
              ELSE (IF n < 536870912 THEN (IF n < 268435456 THEN 27 ELSE 28) ELSE (IF n < 1073741824 THEN 29 ELSE 30))

\* +0.0, -0.0, the infinities and NaN.  A finite f32 other than zero is
\* [s, m, e] with 2^23 <= m < 2^24 and -149 <= e <= 104, or subnormal with
\* 0 < m < 2^23 and e = -149.
Zero == [s |-> 1, m |-> 0, e |-> 0]
NegZero == [s |-> -1, m |-> 0, e |-> 0]
Inf(s) == [s |-> s, m |-> 16777216, e |-> 105]
NaN == [s |-> 1, m |-> -1, e |-> 0]
IsNaN(a) == a.m < 0
IsInf(a) == a.m = 16777216
IsZero(a) == a.m = 0
SignedZero(s) == [s |-> s, m |-> 0, e |-> 0]

\* s * m * 2^e with m <= 2^24 already rounded: a mantissa of 2^24 is 2^23
\* one exponent higher, and an exponent above 104 is beyond the largest f32.
Finite(s, m, e) ==
    IF m = 0 THEN SignedZero(s)
    ELSE IF m = 16777216
    THEN (IF e + 1 > 104 THEN Inf(s) ELSE [s |-> s, m |-> 8388608, e |-> e + 1])
    ELSE IF e > 104 THEN Inf(s)
    ELSE [s |-> s, m |-> m, e |-> e]

\* b + r / (2 * half) rounded to the nearest integer, ties to even; with
\* sticky the exact value is a little above
RoundEven(b, r, half, sticky) ==
    IF r > half \/ (r = half /\ (sticky \/ b % 2 = 1)) THEN b + 1 ELSE b

\* s * M * 2^E rounded to a multiple of 2^te
PackAt(s, M, E, sticky, te) ==
    IF te <= E THEN Finite(s, M * 2^(E - te), te)
    ELSE IF te - E >= 31
    THEN (IF te - E = 31 /\ (M > 1073741824 \/ (M = 1073741824 /\ sticky))
          THEN Finite(s, 1, te) ELSE SignedZero(s))
    ELSE Finite(s, RoundEven(M \div 2^(te - E), M % 2^(te - E), 2^(te - E - 1), sticky), te)

\* The f32 nearest to s * M * 2^E (0 < M < 2^31); sticky: the exact
\* magnitude is above M * 2^E by less than 2^E.  The result has 24 bits of
\* mantissa; below 2^-126 it is subnormal (a multiple of 2^-149) or zero,
\* above the largest f32 it is infinite.
PackExp(s, M, E, sticky, e0) == PackAt(s, M, E, sticky, IF e0 < -149 THEN -149 ELSE e0)
Pack(s, M, E, sticky) == PackExp(s, M, E, sticky, E + Log2(M) - 23)

\* a finite nonzero f32 with its mantissa brought to 24 bits (the exponent
\* of a subnormal goes below -149)
NrmBy(a, sh) == [s |-> a.s, m |-> a.m * 2^sh, e |-> a.e - sh]
Nrm(a) == IF a.m >= 8388608 THEN a ELSE NrmBy(a, 23 - Log2(a.m))

\* the f32 nearest to n * 2^k; FInt(n) is the literal "n."
F32(n, k) == IF n = 0 THEN Zero ELSE Pack(Sgn(n), Abs(n), k, FALSE)
FInt(n) == F32(n, 0)

\* -a, a.abs()
FNeg(a) == IF IsNaN(a) THEN a ELSE [a EXCEPT !.s = -a.s]
FAbs(a) == IF IsNaN(a) THEN a ELSE [a EXCEPT !.s = 1]

\* |a| < |b|
MagLt(a, b) == b.m # 0 /\ (a.m = 0 \/ a.e < b.e \/ (a.e = b.e /\ a.m < b.m))
\* a < b, a > b, a <= b (false when an operand is NaN; -0.0 equals 0.0)
FLt(a, b) ==
    /\ ~IsNaN(a) /\ ~IsNaN(b)
    /\ IF a.s = b.s
       THEN (IF a.s = 1 THEN MagLt(a, b) ELSE MagLt(b, a))
       ELSE a.s < b.s /\ ~(IsZero(a) /\ IsZero(b))
FGt(a, b) == FLt(b, a)
FLe(a, b) == ~IsNaN(a) /\ ~IsNaN(b) /\ ~FLt(b, a)

\* a + b: the smaller operand is aligned to the larger one with three more
\* bits and a sticky bit, then the sum or difference is rounded.
AddSum(s, M, E, st) == IF M = 0 THEN Zero ELSE Pack(s, M, E, st)
AddAligned(big, small, S, st) ==
    AddSum(big.s,
           IF big.s = small.s THEN big.m * 8 + S ELSE big.m * 8 - S - (IF st THEN 1 ELSE 0),
           big.e - 3, st)
AddOrdered(big, small) ==
    IF big.e - small.e >= 26 THEN big
    ELSE AddAligned(big, small, (small.m * 8) \div 2^(big.e - small.e),
                    (small.m * 8) % 2^(big.e - small.e) # 0)
FAdd(a, b) ==
    IF IsNaN(a) \/ IsNaN(b) THEN NaN
    ELSE IF IsInf(a) THEN (IF IsInf(b) /\ a.s # b.s THEN NaN ELSE a)
    ELSE IF IsInf(b) THEN b
    ELSE IF IsZero(a) THEN (IF IsZero(b) /\ a.s # b.s THEN Zero ELSE b)
    ELSE IF IsZero(b) THEN a
    ELSE IF MagLt(a, b) THEN AddOrdered(b, a) ELSE AddOrdered(a, b)

\* a - b
FSub(a, b) == FAdd(a, FNeg(b))

\* a * b: the 48-bit product of the mantissas, in 12-bit limbs, rounded.
\* The product is hi * 2^24 + lo.
MulHiLo(s, hi, lo, E) == Pack(s, hi * 64 + lo \div 2^18, E + 18, lo % 2^18 # 0)
MulParts(s, hh, mid, lo_t, E) ==
    MulHiLo(s, hh + mid \div 4096 + lo_t \div 2^24, lo_t % 2^24, E)
MulLimbs(s, a1, a0, b1, b0, E) ==
    MulParts(s, a1 * b1, a1 * b0 + a0 * b1,
             ((a1 * b0 + a0 * b1) % 4096) * 4096 + a0 * b0, E)
MulNrm(s, x, y) ==
    MulLimbs(s, x.m \div 4096, x.m % 4096, y.m \div 4096, y.m % 4096, x.e + y.e)
FMul(a, b) ==
    IF IsNaN(a) \/ IsNaN(b) THEN NaN
    ELSE IF IsInf(a) \/ IsInf(b)
    THEN (IF IsZero(a) \/ IsZero(b) THEN NaN ELSE Inf(a.s * b.s))
    ELSE IF IsZero(a) \/ IsZero(b) THEN SignedZero(a.s * b.s)
    ELSE MulNrm(a.s * b.s, Nrm(a), Nrm(b))

\* a / b: 26 more bits of the quotient of the mantissas by long division,
\* rounded.
RECURSIVE DivBits(_, _, _, _)
DivBits(rem, d, q, n) ==
    IF n = 0 THEN <<q, rem>>
    ELSE IF 2 * rem >= d THEN DivBits(2 * rem - d, d, 2 * q + 1, n - 1)
         ELSE DivBits(2 * rem, d, 2 * q, n - 1)

DivQuot(s, r, E) == Pack(s, r[1], E, r[2] # 0)
DivNrm(s, x, y) == DivQuot(s, DivBits(x.m % y.m, y.m, x.m \div y.m, 26), x.e - y.e - 26)
FDiv(a, b) ==
    IF IsNaN(a) \/ IsNaN(b) THEN NaN
    ELSE IF IsInf(a) THEN (IF IsInf(b) THEN NaN ELSE Inf(a.s * b.s))
    ELSE IF IsInf(b) THEN SignedZero(a.s * b.s)
    ELSE IF IsZero(b) THEN (IF IsZero(a) THEN NaN ELSE Inf(a.s * b.s))
    ELSE IF IsZero(a) THEN SignedZero(a.s * b.s)
    ELSE DivNrm(a.s * b.s, Nrm(a), Nrm(b))

\* a / 2.: the exponent one lower, rounded when the result is subnormal
FHalf(a) ==
    IF IsNaN(a) \/ IsInf(a) \/ IsZero(a) THEN a
    ELSE IF a.e > -149 THEN [a EXCEPT !.e = @ - 1]
    ELSE Pack(a.s, a.m, a.e - 1, FALSE)

\* a.sqrt(): the integer square root of the mantissa times 2^28, two bits
\* of the radicand at a time, rounded; NaN for a < 0.
RECURSIVE SqrtBits(_, _, _, _)
SqrtBits(M, j, root, rem) ==
    IF j < 0 THEN <<root, rem>>
    ELSE IF 4 * rem + (IF j >= 14 THEN (M \div 4^(j - 14)) % 4 ELSE 0) >= 4 * root + 1
    THEN SqrtBits(M, j - 1, 2 * root + 1,
                  4 * rem + (IF j >= 14 THEN (M \div 4^(j - 14)) % 4 ELSE 0) - (4 * root + 1))
    ELSE SqrtBits(M, j - 1, 2 * root,
                  4 * rem + (IF j >= 14 THEN (M \div 4^(j - 14)) % 4 ELSE 0))

SqrtRoot(r, E) == Pack(1, r[1], E, r[2] # 0)
SqrtNrm(x) ==
    IF x.e % 2 = 1 THEN SqrtRoot(SqrtBits(2 * x.m, 26, 0, 0), (x.e - 1) \div 2 - 14)
    ELSE SqrtRoot(SqrtBits(x.m, 26, 0, 0), x.e \div 2 - 14)
FSqrt(a) ==
    IF IsNaN(a) \/ IsZero(a) THEN a
    ELSE IF a.s = -1 THEN NaN
    ELSE IF IsInf(a) THEN a
    ELSE SqrtNrm(Nrm(a))

\* Vector2::norm and Vector2::dot
norm(x, y) == FSqrt(FAdd(FMul(x, x), FMul(y, y)))
dot(u, w) == FAdd(FMul(u.x, w.x), FMul(u.y, w.y))

\* ----------------------------------------------------- prelude and ball.rs
DRAG == F32(DRAG_M, -24)
KICK_STRENGTH == F32(KICK_STRENGTH_2, -1)

PITCH_BOUNDS_X == <<FSub(FInt(HALF_LEVEL_W), FInt(HALF_PITCH_W)), FAdd(FInt(HALF_LEVEL_W), FInt(HALF_PITCH_W))>>
PITCH_BOUNDS_Y == <<FSub(FInt(HALF_LEVEL_H), FInt(HALF_PITCH_H)), FAdd(FInt(HALF_LEVEL_H), FInt(HALF_PITCH_H))>>
GOAL_BOUNDS_X == <<FSub(FInt(HALF_LEVEL_W), FInt(HALF_GOAL_W)), FAdd(FInt(HALF_LEVEL_W), FInt(HALF_GOAL_W))>>
GOAL_BOUNDS_Y == <<FSub(FSub(FInt(HALF_LEVEL_H), FInt(HALF_PITCH_H)), FInt(GOAL_DEPTH)),
                   FAdd(FAdd(FInt(HALF_LEVEL_H), FInt(HALF_PITCH_H)), FInt(GOAL_DEPTH))>>

\* Rect::new(x, y, w, h)
PITCH_RECT == [x |-> PITCH_BOUNDS_X[1], y |-> PITCH_BOUNDS_Y[1],
               w |-> FMul(FInt(HALF_PITCH_W), FInt(2)), h |-> FMul(FInt(HALF_PITCH_H), FInt(2))]
GOAL_0_RECT == [x |-> GOAL_BOUNDS_X[1], y |-> GOAL_BOUNDS_Y[1], w |-> FInt(GOAL_WIDTH), h |-> FInt(GOAL_DEPTH)]
GOAL_1_RECT == [x |-> GOAL_BOUNDS_X[1], y |-> FSub(GOAL_BOUNDS_Y[2], FInt(GOAL_DEPTH)),
                w |-> FInt(GOAL_WIDTH), h |-> FInt(GOAL_DEPTH)]

\* Rect::collidepoint: left and top edges belong to the rectangle, right and
\* bottom edges do not.
collidepoint(r, x, y) == /\ FLe(r.x, x) /\ FLt(x, FAdd(r.x, r.w))
                         /\ FLe(r.y, y) /\ FLt(y, FAdd(r.y, r.h))

\* sin(dir), cos(dir) of the eight facing directions (dir * pi / 4): 0, 1 and
\* -1 on the axes, the f32 nearest to sin(pi/4) on the diagonals.
sin(d) == <<Zero, F32(SIN_45_M, -24), FInt(1), F32(SIN_45_M, -24),
            Zero, F32(-SIN_45_M, -24), FInt(-1), F32(-SIN_45_M, -24)>>[(d % 8) + 1]
cos(d) == sin(d + 2)

\* angle_to_vec(dir) = (sin(dir), -cos(dir))
angle_to_vec(d) == [x |-> sin(d), y |-> FNeg(cos(d))]

\* "vel * DRAG"
MulDrag(v) == FMul(v, DRAG)

\* ball physics for one axis; bounds = <<lo, hi>>; result <<pos, vel>>
ball_physics(pos, vel, bounds) ==
    LET pos1 == FAdd(pos, vel)
        out == FLt(pos1, bounds[1]) \/ FGt(pos1, bounds[2])
        pos2 == IF out THEN FSub(pos1, vel) ELSE pos1
        vel2 == IF out THEN FNeg(vel) ELSE vel
    IN <<pos2, MulDrag(vel2)>>

\* steps() as a loop: r = [distance, steps, vel] are its three variables.
\* "let (mut steps, mut vel) = (0, KICK_STRENGTH)"
steps_start(distance) ==
    [distance |-> distance, steps |-> 0, vel |-> KICK_STRENGTH]

\* the loop condition as it would be with "distance >= 0."
steps_continue_ge(r) == FLe(Zero, r.distance) /\ FGt(r.vel, F32(1, -2))

\* "while distance > 0. && vel > 0.25"
steps_continue(r) == FGt(r.distance, Zero) /\ FGt(r.vel, F32(1, -2))

\* "(distance, steps, vel) = (distance - vel, steps + 1, vel * DRAG)"
steps_body(r) ==
    [distance |-> FSub(r.distance, r.vel), steps |-> r.steps + 1, vel |-> MulDrag(r.vel)]

\* safe_normalise(v): the unit vector v / |v| and the length |v|, or the
\* zero vector and 0 for a vector of length 0.
safe_normalise(v) ==
    LET d == norm(v.x, v.y)
    IN IF IsZero(d) THEN [v |-> [x |-> Zero, y |-> Zero], d |-> Zero]
       ELSE [v |-> [x |-> FDiv(v.x, d), y |-> FDiv(v.y, d)], d |-> d]

\* "v0.dot(&v1) > 0.8"
DotOver08(u, w) == FGt(dot(u, w), F32(DOT_MIN_M, -24))

\* "target.vpos - source.vpos"
vsub(a, b) == [x |-> FSub(a.x, b.x), y |-> FSub(a.y, b.y)]

\* targetable as it would be without the human() test
targetable_always_scan(target, source, game) ==
    LET n0 == safe_normalise(vsub(target, source))
        between(p) == LET n1 == safe_normalise(vsub(p, source))
                      IN /\ p.team # target.team
                         /\ FGt(n1.d, Zero) /\ FLt(n1.d, n0.d)
                         /\ DotOver08(n0.v, n1.v)
    IN IF \E h \in DOMAIN game.players_pool : between(game.players_pool[h])
       THEN FALSE
       ELSE /\ target.team = source.team
            /\ FGt(n0.d, Zero) /\ FLt(n0.d, FInt(PASS_RANGE))
            /\ DotOver08(n0.v, angle_to_vec(source.dir))

\* targetable as it would be without the final same-team test
targetable_any_team(target, source, game) ==
    LET n0 == safe_normalise(vsub(target, source))
        between(p) == LET n1 == safe_normalise(vsub(p, source))
                      IN /\ p.team # target.team
                         /\ FGt(n1.d, Zero) /\ FLt(n1.d, n0.d)
                         /\ DotOver08(n0.v, n1.v)
    IN IF /\ ~game.teams[source.team].human
          /\ \E h \in DOMAIN game.players_pool : between(game.players_pool[h])
       THEN FALSE
       ELSE /\ FGt(n0.d, Zero) /\ FLt(n0.d, FInt(PASS_RANGE))
            /\ DotOver08(n0.v, angle_to_vec(source.dir))

\* Is player (or goal) target a good target for a pass from player source?
\* target, source: [x, y, team, dir]; game: [players_pool, teams].  The loop
\* returns false at the first p found, so its result is that of the
\* quantifier.
targetable(target, source, game) ==
    LET n0 == safe_normalise(vsub(target, source))
        between(p) == LET n1 == safe_normalise(vsub(p, source))
                      IN /\ p.team # target.team
                         /\ FGt(n1.d, Zero) /\ FLt(n1.d, n0.d)
                         /\ DotOver08(n0.v, n1.v)
    IN IF /\ ~game.teams[source.team].human
          /\ \E h \in DOMAIN game.players_pool : between(game.players_pool[h])
       THEN FALSE
       ELSE /\ target.team = source.team
            /\ FGt(n0.d, Zero) /\ FLt(n0.d, FInt(PASS_RANGE))
            /\ DotOver08(n0.v, angle_to_vec(source.dir))

\* avg as it would be without the snap to b
avg_no_snap(a, b) == FHalf(FAdd(a, b))

\* "if (b - a).abs() < 1. { b } else { (a + b) / 2. }"
avg(a, b) == IF FLt(FAbs(FSub(b, a)), FInt(1)) THEN b ELSE FHalf(FAdd(a, b))

on_pitch(x, y) == \/ collidepoint(PITCH_RECT, x, y)
                  \/ collidepoint(GOAL_0_RECT, x, y)
                  \/ collidepoint(GOAL_1_RECT, x, y)

\* "(p.vpos - self.vpos).norm() <= DRIBBLE_DIST_X"
WithinDribble(b, p) ==
    FLe(norm(FSub(p.x, b.x), FSub(p.y, b.y)), FInt(DRIBBLE_DIST_X))

\* collide as it would be if a timer of 0 counted as expired
collide_le0(b, p) == p.timer <= 0 /\ WithinDribble(b, p)

collide(b, p) == p.timer < 0 /\ WithinDribble(b, p)


\* --------------------------------------------------------------- state
VARIABLES ball,      \* Ball: x, y (vpos), vx, vy (vel), owner, timer, sx, sy (shadow.vpos)
          players,   \* game.players_pool: handle -> [x, y, dir, team, timer]
          acp,       \* game.teams[t].active_control_player (0 = None)
          holdoff,   \* game.difficulty.holdoff_timer
          nupd,      \* number of Ball::update calls so far
          ticked,    \* the players' timers were lowered since the last update
          hist,      \* what the last Ball::update started from and did
          call,      \* the last call of a pure function and its result
          cav        \* cavern: the Player, the length of orbs, and what the
                     \* last Player::update did

vars == <<ball, players, acp, holdoff, nupd, ticked, hist, call, cav>>

\* ------------------------------------------------------- Ball::update
\* movement as it would be if the dribbler who runs the ball off the pitch
\* were not given a hold-off.
movement_no_holdoff(b, pl) ==
    IF b.owner # NoOwner
    THEN LET owner == pl[b.owner]
             new_x == avg(b.x, FAdd(owner.x, FMul(FInt(DRIBBLE_DIST_X), sin(owner.dir))))
             new_y == avg(b.y, FSub(owner.y, FMul(FInt(DRIBBLE_DIST_Y), cos(owner.dir))))
         IN IF on_pitch(new_x, new_y)
            THEN [ball |-> [b EXCEPT !.x = new_x, !.y = new_y], players |-> pl]
            ELSE [ball |-> [b EXCEPT !.vx = FMul(angle_to_vec(owner.dir).x, FInt(KICK_OFF_SPEED)),
                                     !.vy = FMul(angle_to_vec(owner.dir).y, FInt(KICK_OFF_SPEED)),
                                     !.owner = NoOwner],
                  players |-> pl]
    ELSE [ball |-> b, players |-> pl]

\* movement as it would be if the blended position were committed also when
\* it is off the pitch
movement_commit_off(b, pl) ==
    IF b.owner # NoOwner
    THEN LET owner == pl[b.owner]
             new_x == avg(b.x, FAdd(owner.x, FMul(FInt(DRIBBLE_DIST_X), sin(owner.dir))))
             new_y == avg(b.y, FSub(owner.y, FMul(FInt(DRIBBLE_DIST_Y), cos(owner.dir))))
         IN IF on_pitch(new_x, new_y)
            THEN [ball |-> [b EXCEPT !.x = new_x, !.y = new_y], players |-> pl]
            ELSE [ball |-> [b EXCEPT !.x = new_x, !.y = new_y,
                                     !.vx = FMul(angle_to_vec(owner.dir).x, FInt(KICK_OFF_SPEED)),
                                     !.vy = FMul(angle_to_vec(owner.dir).y, FInt(KICK_OFF_SPEED)),
                                     !.owner = NoOwner],
                  players |-> [pl EXCEPT ![b.owner].timer = HOLDOFF_PLAYER]]
    ELSE [ball |-> b, players |-> pl]

\* "if let Some(owner_h) = ball.owner" ... "else": the dribble step or the
\* free physics step.  Result: the ball and the pool after the step.
movement(b, pl) ==
    IF b.owner # NoOwner
    THEN LET owner == pl[b.owner]
             new_x == avg(b.x, FAdd(owner.x, FMul(FInt(DRIBBLE_DIST_X), sin(owner.dir))))
             new_y == avg(b.y, FSub(owner.y, FMul(FInt(DRIBBLE_DIST_Y), cos(owner.dir))))
         IN IF on_pitch(new_x, new_y)
            THEN [ball |-> [b EXCEPT !.x = new_x, !.y = new_y], players |-> pl]
            ELSE [ball |-> [b EXCEPT !.vx = FMul(angle_to_vec(owner.dir).x, FInt(KICK_OFF_SPEED)),
                                     !.vy = FMul(angle_to_vec(owner.dir).y, FInt(KICK_OFF_SPEED)),
                                     !.owner = NoOwner],
                  players |-> [pl EXCEPT ![b.owner].timer = HOLDOFF_PLAYER]]
    ELSE LET bounds_x == IF FGt(FAbs(FSub(b.y, FInt(HALF_LEVEL_H))), FInt(HALF_PITCH_H))
                         THEN GOAL_BOUNDS_X ELSE PITCH_BOUNDS_X
             bounds_y == IF FLt(FAbs(FSub(b.x, FInt(HALF_LEVEL_W))), FInt(HALF_GOAL_W))
                         THEN GOAL_BOUNDS_Y ELSE PITCH_BOUNDS_Y
             rx == ball_physics(b.x, b.vx, bounds_x)
             ry == ball_physics(b.y, b.vy, bounds_y)
         IN [ball |-> [b EXCEPT !.x = rx[1], !.vx = rx[2], !.y = ry[1], !.vy = ry[2]],
             players |-> pl]

\* scan_step as it would be if the loop stopped at the first acquisition
scan_step_first(st, h, pl, hold) ==
    LET target == pl[h]
        same_team == st.owner_r # NoOwner /\ pl[st.owner_r].team = target.team
    IN IF st.acq = <<>> /\ ~same_team /\ collide(st.ball, target)
       THEN [st EXCEPT !.owner_timer = IF st.owner_r # NoOwner THEN HOLDOFF_PLAYER ELSE @,
                       !.ball.timer = hold,
                       !.ball.owner = h,
                       !.acp[target.team] = h,
                       !.acq = Append(@, h)]
       ELSE st

\* scan_step as it would be without the hold-off for the previous owner
scan_step_no_holdoff(st, h, pl, hold) ==
    LET target == pl[h]
        same_team == st.owner_r # NoOwner /\ pl[st.owner_r].team = target.team
    IN IF ~same_team /\ collide(st.ball, target)
       THEN [st EXCEPT !.ball.timer = hold,
                       !.ball.owner = h,
                       !.acp[target.team] = h,
                       !.acq = Append(@, h)]
       ELSE st

\* scan_step as it would be without the owner-team check
scan_step_no_team(st, h, pl, hold) ==
    LET target == pl[h]
    IN IF collide(st.ball, target)
       THEN [st EXCEPT !.owner_timer = IF st.owner_r # NoOwner THEN HOLDOFF_PLAYER ELSE @,
                       !.ball.timer = hold,
                       !.ball.owner = h,
                       !.acp[target.team] = h,
                       !.acq = Append(@, h)]
       ELSE st

\* scan_step as it would be without "ball.timer = holdoff_timer"
scan_step_no_ball_timer(st, h, pl, hold) ==
    LET target == pl[h]
        same_team == st.owner_r # NoOwner /\ pl[st.owner_r].team = target.team
    IN IF ~same_team /\ collide(st.ball, target)
       THEN [st EXCEPT !.owner_timer = IF st.owner_r # NoOwner THEN HOLDOFF_PLAYER ELSE @,
                       !.ball.owner = h,
                       !.acp[target.team] = h,
                       !.acq = Append(@, h)]
       ELSE st

\* scan_step as it would be if the ball's timer gated the acquisition
scan_step_timer_gate(st, h, pl, hold) ==
    LET target == pl[h]
        same_team == st.owner_r # NoOwner /\ pl[st.owner_r].team = target.team
    IN IF st.ball.timer <= 0 /\ ~same_team /\ collide(st.ball, target)
       THEN [st EXCEPT !.owner_timer = IF st.owner_r # NoOwner THEN HOLDOFF_PLAYER ELSE @,
                       !.ball.timer = hold,
                       !.ball.owner = h,
                       !.acp[target.team] = h,
                       !.acq = Append(@, h)]
       ELSE st

\* scan_step as it would be if only the first acquirer of a scan became its
\* team's active_control_player
scan_step_acp_once(st, h, pl, hold) ==
    LET target == pl[h]
        same_team == st.owner_r # NoOwner /\ pl[st.owner_r].team = target.team
    IN IF ~same_team /\ collide(st.ball, target)
       THEN [st EXCEPT !.owner_timer = IF st.owner_r # NoOwner THEN HOLDOFF_PLAYER ELSE @,
                       !.ball.timer = hold,
                       !.ball.owner = h,
                       !.acp[target.team] = IF st.acq = <<>> THEN h ELSE @,
                       !.acq = Append(@, h)]
       ELSE st

\* One iteration of "for target in game.players_pool.iter()".  st holds what
\* the loop reads and writes: the ball, ball_owner_r (owner_r: the handle
\* taken out of the pool before the loop, owner_timer: the timer of that
\* copy), the teams' active_control_player, and the handles that acquired.
scan_step(st, h, pl, hold) ==
    LET target == pl[h]
        same_team == st.owner_r # NoOwner /\ pl[st.owner_r].team = target.team
    IN IF ~same_team /\ collide(st.ball, target)
       THEN [st EXCEPT !.owner_timer = IF st.owner_r # NoOwner THEN HOLDOFF_PLAYER ELSE @,
                       !.ball.timer = hold,
                       !.ball.owner = h,
                       !.acp[target.team] = h,
                       !.acq = Append(@, h)]
       ELSE st

\* "game.players_pool.take_reserve(owner_h)" under "if let Some(owner_h)":
\* the handles left in the pool once the entry of owner t is borrowed out.
take_reserve(pool, t) == IF t = NoOwner THEN pool ELSE pool \ {t}

\* put_back as it would be if the borrowed entry were never returned
put_back_forgotten(pool, t) == pool

\* "game.players_pool.put_back(ball_owner_ticket, ball_owner)" under
\* "if let Some(..) = ball_owner_r": the handles in the pool once the entry
\* borrowed out as t is returned.
put_back(pool, t) == IF t = NoOwner THEN pool ELSE pool \cup {t}

\* The loop over the pool in handle order from handle h on; only the entries
\* in the pool (st.pool) are iterated, and st.seen collects them.
RECURSIVE scan(_, _, _, _)
scan(st, h, pl, hold) ==
    IF h > NPlayers THEN st
    ELSE CHOOSE r \in {scan(IF h \notin s.pool THEN s
                             ELSE scan_step([s EXCEPT !.seen = @ \cup {h}], h, pl, hold),
                             h + 1, pl, hold) : s \in {st}} : TRUE

\* Ball::update(game) on g = [ball, players, acp, holdoff]; the result adds
\* mid (the ball after the movement step), acq (the acquirers in order) and
\* seen (the handles the scan iterated).  Each stage (moved: the movement
\* step and the shadow; looped: the scan; finish: put_back) is bound to its
\* value before the next one reads it.
update(g) ==
    LET b0 == [g.ball EXCEPT !.timer = @ - 1]
        finish(m, b1, st0, st) ==
            [ball |-> st.ball,
             players |-> [h \in put_back(st.pool, st0.owner_r) |->
                             IF h = st0.owner_r
                             THEN [m.players[h] EXCEPT !.timer = st.owner_timer]
                             ELSE m.players[h]],
             acp |-> st.acp,
             holdoff |-> g.holdoff,
             mid |-> b1,
             mid_players |-> m.players,
             acq |-> st.acq,
             seen |-> st.seen]
        looped(m, b1, st0) ==
            CHOOSE r \in {finish(m, b1, st0, st) :
                             st \in {scan(st0, 1, m.players, g.holdoff)}} : TRUE
        moved(m) ==
            LET b1 == [m.ball EXCEPT !.sx = m.ball.x, !.sy = m.ball.y]
                st0 == [ball |-> b1,
                        owner_r |-> b1.owner,
                        owner_timer |-> IF b1.owner # NoOwner THEN m.players[b1.owner].timer ELSE 0,
                        acp |-> g.acp,
                        acq |-> <<>>,
                        pool |-> take_reserve(DOMAIN m.players, b1.owner),
                        seen |-> {}]
            IN looped(m, b1, st0)
    IN CHOOSE r \in {moved(m) : m \in {movement(b0, g.players)}} : TRUE

\* ------------------------------------------------------------- the game
Px(n) == FInt(n)
PlayerSpots == {<<Px(916), Px(700)>>, <<Px(930), Px(700)>>}
BallSpots == {<<Px(930), Px(700)>>, <<Px(941), Px(700)>>}
OwnerDirs == {1, 2}
FreeVels == {<<Zero, Zero>>, <<Px(3), Zero>>}
InitTimers == {-1, 0}
HoldoffTimers == {60, 120}

NoCall == [f |-> "none"]
NoHist == [kind |-> "none"]
NoCav == [kind |-> "none"]

\* Ball::new: the ball on the centre spot, at rest, with no owner.
NewBall == [x |-> Px(HALF_LEVEL_W), y |-> Px(HALF_LEVEL_H), vx |-> Zero, vy |-> Zero,
            owner |-> NoOwner, timer |-> 0, sx |-> Px(HALF_LEVEL_W), sy |-> Px(HALF_LEVEL_H)]

\* The kick-off: the ball as Ball::new builds it, every player on the centre
\* spot or by the touchline, nobody in control yet.
KickOffSpots == {<<Px(HALF_LEVEL_W), Px(HALF_LEVEL_H)>>, <<Px(916), Px(700)>>}
NewGame ==
    /\ ball = NewBall
    /\ players \in [Handles -> [x : {s[1] : s \in KickOffSpots}, y : {s[2] : s \in KickOffSpots},
                                dir : {2}, team : Teams, timer : InitTimers]]
    /\ acp = [t \in Teams |-> NoOwner]

\* A match under way, entered at any of a set of states between two frames:
\* the ball at one of BallSpots, free (at rest or moving) or dribbled by a
\* player whose timer has expired, and the players at PlayerSpots.
MidMatch ==
    /\ \E o \in {NoOwner} \cup Handles, bs \in BallSpots, fv \in FreeVels :
          /\ o # NoOwner => fv = <<Zero, Zero>>
          /\ ball = [x |-> bs[1], y |-> bs[2], vx |-> fv[1], vy |-> fv[2],
                     owner |-> o, timer |-> 0, sx |-> bs[1], sy |-> bs[2]]
    /\ players \in [Handles -> [x : {s[1] : s \in PlayerSpots}, y : {s[2] : s \in PlayerSpots},
                                dir : OwnerDirs, team : Teams, timer : InitTimers]]
    /\ \A h \in Handles : /\ h = ball.owner => players[h].timer < 0
                          /\ h # ball.owner => players[h].dir = 2
    /\ acp = [t \in Teams |-> IF ball.owner # NoOwner /\ players[ball.owner].team = t
                              THEN ball.owner ELSE NoOwner]

\* A game watched from its kick-off (Ball::new) or from a frame of a match
\* under way.
InitGame ==
    /\ NewGame \/ MidMatch
    /\ holdoff \in HoldoffTimers
    /\ nupd = 0
    /\ ticked = FALSE
    /\ hist = NoHist
    /\ call = NoCall
    /\ cav = NoCav

\* One frame's Ball::update, whatever the number of frames so far.
UpdateFrame ==
    /\ \E r \in {update([ball |-> ball, players |-> players, acp |-> acp, holdoff |-> holdoff])} :
       LET lost == IF ball.owner # NoOwner /\ r.ball.owner # ball.owner THEN ball.owner ELSE NoOwner
       IN /\ ball' = r.ball
          /\ players' = r.players
          /\ acp' = r.acp
          /\ hist' = [kind |-> "update", pre_ball |-> ball, pre_players |-> players,
                      pre_acp |-> acp, mid |-> r.mid, mid_players |-> r.mid_players, acq |-> r.acq, seen |-> r.seen, lost |-> lost,
                      prev_lost |-> IF hist.kind = "update" THEN hist.lost ELSE NoOwner,
                      kept |-> /\ hist.kind = "none" \/ hist.kept
                               /\ ball.owner # NoOwner /\ r.ball.owner = ball.owner]
    /\ nupd' = nupd + 1
    /\ ticked' = FALSE
    /\ UNCHANGED <<holdoff, call, cav>>

\* One frame's Ball::update.
Update == nupd < MaxUpdates /\ UpdateFrame

\* Between two ball updates every player's own update lowers its timer by
\* one (the players' update is outside ball.rs); a timer at -MaxExpired
\* stays there.
PlayersTick ==
    /\ ~ticked
    /\ nupd < MaxUpdates
    /\ players' = [h \in Handles |->
                     IF players[h].timer > -MaxExpired
                     THEN [players[h] EXCEPT !.timer = @ - 1] ELSE players[h]]
    /\ ticked' = TRUE
    /\ UNCHANGED <<ball, acp, holdoff, nupd, hist, call, cav>>

Next == Update \/ PlayersTick

Spec == InitGame /\ [][Next]_vars

\* ------------------------------------------------ the free ball at a goal
\* A free ball near the goal mouths and the touchline, at rest or moving
\* straight or diagonally; the players stand at midfield, out of reach.
FreeSpots == {<<Px(408), Px(1320)>>, <<Px(500), Px(1338)>>, <<Px(592), Px(80)>>,
              <<Px(500), Px(82)>>, <<Px(940), Px(700)>>, <<Px(410), Px(1330)>>}
FreeSpeeds == {Px(-3), Zero, Px(3)}

InitFree ==
    /\ \E bs \in FreeSpots, vx \in FreeSpeeds, vy \in FreeSpeeds :
          ball = [x |-> bs[1], y |-> bs[2], vx |-> vx, vy |-> vy,
                  owner |-> NoOwner, timer |-> 0, sx |-> bs[1], sy |-> bs[2]]
    /\ players = [h \in Handles |-> [x |-> Px(916), y |-> Px(700), dir |-> 2,
                                     team |-> h % 2, timer |-> -1]]
    /\ acp = [t \in Teams |-> NoOwner]
    /\ holdoff \in HoldoffTimers
    /\ nupd = 0
    /\ ticked = FALSE
    /\ hist = NoHist
    /\ call = NoCall
    /\ cav = NoCav

FreeUpdate == nupd < MaxFreeUpdates /\ UpdateFrame

SpecFree == InitFree /\ [][FreeUpdate]_vars

\* ------------------------------------------------------ the carried ball
\* A player who stands still carries the ball from wherever it was picked
\* up; the other players, team mates or opponents, stand by the touchline.
CarrySpots == {<<Px(930), Px(700)>>, <<Px(941), Px(700)>>, <<Px(900), Px(660)>>,
               <<F32(953345, -10), Px(700)>>}

InitCarry ==
    /\ \E o \in Handles, bs \in CarrySpots :
          ball = [x |-> bs[1], y |-> bs[2], vx |-> Zero, vy |-> Zero,
                  owner |-> o, timer |-> 0, sx |-> bs[1], sy |-> bs[2]]
    /\ \E os \in PlayerSpots, od \in OwnerDirs, tm \in [Handles -> Teams] :
          players = [h \in Handles |->
                       IF h = ball.owner
                       THEN [x |-> os[1], y |-> os[2], dir |-> od, team |-> tm[h], timer |-> -1]
                       ELSE [x |-> Px(930), y |-> Px(700), dir |-> 2, team |-> tm[h], timer |-> -1]]
    /\ acp = [t \in Teams |-> IF players[ball.owner].team = t THEN ball.owner ELSE NoOwner]
    /\ holdoff = HOLDOFF_PLAYER
    /\ nupd = 0
    /\ ticked = FALSE
    /\ hist = NoHist
    /\ call = NoCall
    /\ cav = NoCav

CarryUpdate == nupd < MaxCarryUpdates /\ UpdateFrame

SpecCarry == InitCarry /\ [][CarryUpdate]_vars


\* ------------------------------------------------- properties of the game
\* The state is the one a Ball::update has just produced.
JustUpdated == hist.kind = "update" /\ ~ticked
\* hist describes the last Ball::update (the ball has not changed since).
Updated == hist.kind = "update"

SetMin(S) == CHOOSE m \in S : \A n \in S : m <= n
SetMax(S) == CHOOSE m \in S : \A n \in S : n <= m

\* The players who qualify to acquire the ball in the last update: timer < 0,
\* within DRIBBLE_DIST_X of the ball after the movement step, and not on the
\* team of the player who owned the ball when the scan began.
Barred(h) == /\ hist.mid.owner # NoOwner
             /\ hist.mid_players[hist.mid.owner].team = hist.mid_players[h].team
Eligible(h) == /\ hist.mid_players[h].timer < 0
               /\ WithinDribble(hist.mid, hist.mid_players[h])
Qualifying == {h \in Handles : Eligible(h) /\ ~Barred(h)}

\* The blended carry position of the last update, which started owned.
PreOwner == hist.pre_ball.owner
BlendX == avg(hist.pre_ball.x,
              FAdd(hist.pre_players[PreOwner].x,
                   FMul(FInt(DRIBBLE_DIST_X), sin(hist.pre_players[PreOwner].dir))))
BlendY == avg(hist.pre_ball.y,
              FSub(hist.pre_players[PreOwner].y,
                   FMul(FInt(DRIBBLE_DIST_Y), cos(hist.pre_players[PreOwner].dir))))
RanOff == Updated /\ PreOwner # NoOwner /\ ~on_pitch(BlendX, BlendY)

\* C1 as stated: when several players qualify in one update, the owner at the
\* end of the update is the first of them in pool order.
C1_FirstQualifyingWins ==
    (Updated /\ Cardinality(Qualifying) >= 2) => ball.owner = SetMin(Qualifying)

\* C1 amended: when several players qualify in one update, the owner at the
\* end of the update is the last of them in pool order (the scan does not
\* stop at the first acquisition).
C1_LastQualifyingWins ==
    (Updated /\ Cardinality(Qualifying) >= 2) => ball.owner = SetMax(Qualifying)

C1_Witness ==
    /\ Updated /\ Cardinality(Qualifying) >= 2
    /\ ball.owner = SetMax(Qualifying)
    /\ hist.mid.owner # NoOwner

\* C2 as stated: an update that starts owned with the blended carry position
\* off the playing area ends with no owner, the previous owner's timer 60 and
\* the velocity 3 * facing, nonzero, whatever the other players are.
C2_DispossessedNoOwner ==
    (RanOff /\ ~ticked) =>
        /\ ball.owner = NoOwner
        /\ players[PreOwner].timer = 60
        /\ ball.vx = FMul(angle_to_vec(hist.pre_players[PreOwner].dir).x, FInt(3))
        /\ ball.vy = FMul(angle_to_vec(hist.pre_players[PreOwner].dir).y, FInt(3))
        /\ ~(IsZero(ball.vx) /\ IsZero(ball.vy))

\* C2 amended: such an update ends with the previous owner no longer the
\* owner, its timer 60 and the velocity 3 * facing, nonzero; the ball has no
\* owner unless some other player has timer < 0 and is within DRIBBLE_DIST_X
\* of the ball, and then the last such player in pool order owns it.
C2_Dispossessed ==
    (RanOff /\ ~ticked) =>
        /\ ball.owner # PreOwner
        /\ players[PreOwner].timer = 60
        /\ ball.vx = FMul(angle_to_vec(hist.pre_players[PreOwner].dir).x, FInt(3))
        /\ ball.vy = FMul(angle_to_vec(hist.pre_players[PreOwner].dir).y, FInt(3))
        /\ ~(IsZero(ball.vx) /\ IsZero(ball.vy))
        /\ LET near == {h \in Handles \ {PreOwner} :
                           /\ hist.pre_players[h].timer < 0
                           /\ WithinDribble(hist.pre_ball, hist.pre_players[h])}
           IN ball.owner = IF near = {} THEN NoOwner ELSE SetMax(near)

C2_Witness == RanOff /\ ~ticked /\ ball.owner \notin {NoOwner, PreOwner}
              /\ players[PreOwner].timer = 60

\* C3: within one scan, after the ball went to a player q no later candidate
\* on q's team acquires it.
C3_NoTeammateAfterTransfer ==
    Updated => \A i, j \in 1..Len(hist.acq) :
                  i < j => hist.mid_players[hist.acq[i]].team # hist.mid_players[hist.acq[j]].team

\* C4: the player who owned the ball at the start of an update and not at its
\* end has timer 60 after it, and is not the owner after the next update.
C4_Lockout ==
    /\ (JustUpdated /\ hist.lost # NoOwner) =>
           /\ ball.owner # hist.lost
           /\ players[hist.lost].timer = 60
    /\ (Updated /\ hist.prev_lost # NoOwner) => ball.owner # hist.prev_lost

C4_Witness ==
    /\ Updated /\ hist.prev_lost # NoOwner
    /\ WithinDribble(hist.mid, hist.mid_players[hist.prev_lost])
    /\ hist.pre_ball.owner # NoOwner
    /\ hist.pre_players[hist.prev_lost].team # hist.pre_players[hist.pre_ball.owner].team
    /\ hist.pre_players[hist.prev_lost].timer = 59

\* C5: if after the movement step the ball has no owner and exactly one
\* player has timer < 0 and is within DRIBBLE_DIST_X, that player owns the
\* ball at the end of the update and is its team's active_control_player.
OnlyEligible(h) == {k \in Handles : Eligible(k)} = {h}

C5_Acquisition ==
    \A h \in Handles :
        (JustUpdated /\ hist.mid.owner = NoOwner /\ OnlyEligible(h)) =>
            /\ ball.owner = h
            /\ acp[players[h].team] = h

C5_Witness ==
    \E h, k \in Handles :
        /\ JustUpdated /\ hist.mid.owner = NoOwner /\ OnlyEligible(h)
        /\ ball.owner = h
        /\ k # h /\ hist.mid_players[k].timer = 0 /\ WithinDribble(hist.mid, hist.mid_players[k])
        /\ hist.pre_acp[players[h].team] # h

\* C6: an owner at the end of an update who was not the owner at its start
\* had timer < 0, was within DRIBBLE_DIST_X of the ball after the movement
\* step, and is not on the team of a player who owned the ball when the scan
\* began.
C6_AcquirerConditions ==
    (Updated /\ ball.owner # NoOwner /\ ball.owner # hist.pre_ball.owner) =>
        /\ hist.mid_players[ball.owner].timer < 0
        /\ WithinDribble(hist.mid, hist.mid_players[ball.owner])
        /\ ~Barred(ball.owner)

C6_Witness ==
    /\ Updated /\ ball.owner # NoOwner /\ hist.pre_ball.owner # NoOwner
    /\ ball.owner # hist.pre_ball.owner
    /\ hist.mid.owner # NoOwner
    /\ \E k \in Handles : k # hist.mid.owner /\ Eligible(k) /\ Barred(k)


\* C11: an update changes no player's position, direction or team, and the
\* only timer it changes is that of the player who owned the ball at its
\* start and not at its end, which becomes 60.
C11_PlayersFrame ==
    JustUpdated =>
        \A h \in Handles :
            /\ players[h].x = hist.pre_players[h].x
            /\ players[h].y = hist.pre_players[h].y
            /\ players[h].dir = hist.pre_players[h].dir
            /\ players[h].team = hist.pre_players[h].team
            /\ players[h].timer = IF h = hist.lost THEN 60 ELSE hist.pre_players[h].timer

C11_Witness ==
    /\ JustUpdated /\ hist.lost # NoOwner /\ ball.owner # NoOwner
    /\ players[hist.lost].timer = 60 /\ hist.pre_players[hist.lost].timer < 0
    /\ players[ball.owner].timer = hist.pre_players[ball.owner].timer

\* C12 as stated: while the ball's timer, set by an acquisition, is still
\* positive, no update changes the owner.
C12_TimerGatesOwner ==
    (Updated /\ hist.pre_ball.timer > 0) => ball.owner = hist.pre_ball.owner

\* C12 amended: the ball's timer does not gate the owner.  In an update that
\* starts with the ball owned and its timer still positive, the owner changes
\* exactly when the owner runs the ball off the playing area or some player
\* qualifies to acquire it.
C12_TimerDoesNotGate ==
    (Updated /\ hist.pre_ball.timer > 0 /\ PreOwner # NoOwner) =>
        ((ball.owner # PreOwner) <=> (RanOff \/ Qualifying # {}))

C12_Witness ==
    /\ Updated /\ hist.pre_ball.timer > 1 /\ PreOwner # NoOwner
    /\ ~RanOff /\ Qualifying # {} /\ ball.owner \in Qualifying

\* C14: an update leaves the ball's timer one lower than it was, unless an
\* acquisition happened in it, and then the timer is holdoff_timer.
C14_BallTimer ==
    Updated => ball.timer = IF hist.acq = <<>> THEN hist.pre_ball.timer - 1 ELSE holdoff

C14_Witness ==
    /\ Updated /\ hist.acq = <<>> /\ hist.pre_ball.timer = holdoff
    /\ ball.timer = holdoff - 1

\* C15: in an update that starts owned, a blended position inside the playing
\* area becomes the ball's position and the velocity stays; a blended position
\* outside it leaves the ball's position and changes only velocity (three
\* times the owner's facing) and owner (cleared by the owned-mode step).
C15_OwnedFrame ==
    (Updated /\ PreOwner # NoOwner) =>
        IF on_pitch(BlendX, BlendY)
        THEN /\ <<ball.x, ball.y>> = <<BlendX, BlendY>>
             /\ <<ball.vx, ball.vy>> = <<hist.pre_ball.vx, hist.pre_ball.vy>>
             /\ hist.mid.owner = PreOwner
        ELSE /\ <<ball.x, ball.y>> = <<hist.pre_ball.x, hist.pre_ball.y>>
             /\ hist.mid.owner = NoOwner
             /\ ball.vx = FMul(angle_to_vec(hist.pre_players[PreOwner].dir).x, FInt(KICK_OFF_SPEED))
             /\ ball.vy = FMul(angle_to_vec(hist.pre_players[PreOwner].dir).y, FInt(KICK_OFF_SPEED))

C15_Witness ==
    /\ RanOff /\ <<ball.x, ball.y>> = <<hist.pre_ball.x, hist.pre_ball.y>>
    /\ <<BlendX, BlendY>> # <<ball.x, ball.y>>
    /\ ~IsZero(ball.vx) /\ ~IsZero(ball.vy)

\* The acquirers of team t in the last update, in scan order.
AcqOf(t) == SelectSeq(hist.acq, LAMBDA h : hist.mid_players[h].team = t)

\* C18 as stated: an update changes a team's active_control_player only if a
\* player of that team owns the ball at its end, and then to that owner; and
\* no team's reference changes when the owner does not change.
C18_AcpOnlyOwnersTeam ==
    Updated =>
        /\ \A t \in Teams :
              acp[t] # hist.pre_acp[t] =>
                  /\ ball.owner # NoOwner
                  /\ players[ball.owner].team = t
                  /\ acp[t] = ball.owner
        /\ ball.owner = hist.pre_ball.owner => acp = hist.pre_acp

\* C18 amended: an update sets a team's active_control_player to the last
\* player of that team who acquired the ball in it and leaves the reference of
\* a team of which no player acquired; no team's reference changes when the
\* owner does not change.
C18_AcpFrame ==
    Updated =>
        /\ \A t \in Teams :
              acp[t] = IF AcqOf(t) = <<>> THEN hist.pre_acp[t]
                       ELSE AcqOf(t)[Len(AcqOf(t))]
        /\ ball.owner = hist.pre_ball.owner => acp = hist.pre_acp

C18_Witness ==
    /\ Updated /\ ball.owner # NoOwner
    /\ \E t \in Teams : /\ players[ball.owner].team # t
                        /\ AcqOf(t) # <<>>
                        /\ acp[t] = AcqOf(t)[Len(AcqOf(t))]
                        /\ acp[t] # hist.pre_acp[t]

\* C17: after an update the pool holds the same players under the same
\* handles; the owner's entry, borrowed out for the scan, is back and was not
\* a candidate of the scan; and the ball's owner, if set, is a handle of the
\* pool.
C17_PoolIntegrity ==
    Updated =>
        /\ DOMAIN players = DOMAIN hist.pre_players
        /\ \A h \in DOMAIN players :
              /\ players[h].team = hist.pre_players[h].team
              /\ <<players[h].x, players[h].y>> = <<hist.pre_players[h].x, hist.pre_players[h].y>>
        /\ hist.mid.owner \notin hist.seen
        /\ hist.seen = DOMAIN hist.pre_players \ {hist.mid.owner}
        /\ ball.owner \in DOMAIN players \cup {NoOwner}

C17_Witness ==
    /\ Updated /\ hist.mid.owner # NoOwner /\ hist.acq # <<>>
    /\ ball.owner \in DOMAIN players /\ hist.mid.owner \in DOMAIN players
    /\ Cardinality(hist.seen) = NPlayers - 1

\* The legal playing area, edges included: the pitch rectangle and the two
\* goal rectangles.
InArea(x, y) ==
    \/ /\ FLe(PITCH_BOUNDS_X[1], x) /\ FLe(x, PITCH_BOUNDS_X[2])
       /\ FLe(PITCH_BOUNDS_Y[1], y) /\ FLe(y, PITCH_BOUNDS_Y[2])
    \/ /\ FLe(GOAL_BOUNDS_X[1], x) /\ FLe(x, GOAL_BOUNDS_X[2])
       /\ FLe(GOAL_BOUNDS_Y[1], y) /\ FLe(y, GOAL_BOUNDS_Y[2])

\* C13: a free ball that starts inside the legal playing area is inside it
\* after every free-mode update; it never ends a tick beyond the pitch's Y
\* range and outside the goal mouth's X range.
C13_FreeBallContained ==
    ball.owner = NoOwner => InArea(ball.x, ball.y)

\* The ball is exactly at the carry target of player o.
AtTarget(o) ==
    /\ ball.x = FAdd(players[o].x, FMul(FInt(DRIBBLE_DIST_X), sin(players[o].dir)))
    /\ ball.y = FSub(players[o].y, FMul(FInt(DRIBBLE_DIST_Y), cos(players[o].dir)))

\* The ball has had the same owner from the start: in every update so far
\* the blended position was inside the playing area and nobody qualified to
\* take the ball.
OwnerKept == Updated /\ hist.kept

\* C16: when a player who stands still keeps the ball, the ball is exactly
\* at that player's carry target after finitely many updates (CarrySettle of
\* them from CarrySpots, the gap being halved while it is 1 or more) and in
\* every later update.
C16_CarryConverges ==
    (OwnerKept /\ nupd >= CarrySettle) => AtTarget(ball.owner)

C16_Witness ==
    /\ OwnerKept /\ nupd = CarrySettle /\ AtTarget(ball.owner)
    /\ <<hist.pre_ball.x, hist.pre_ball.y>> # <<ball.x, ball.y>>

\* ---------------------------------------------------- the pure functions
\* While a pure function is exercised the game stands still in the state
\* Ball::new leaves it in.
BallIdle ==
    /\ ball = NewBall
    /\ players = [h \in Handles |-> [x |-> Px(HALF_LEVEL_W), y |-> Px(HALF_LEVEL_H),
                                     dir |-> 0, team |-> 0, timer |-> 0]]
    /\ acp = [t \in Teams |-> NoOwner]
    /\ holdoff = 60
    /\ nupd = 0
    /\ ticked = FALSE
    /\ hist = NoHist
GameIdle == BallIdle /\ cav = NoCav
gameVars == <<ball, players, acp, holdoff, nupd, ticked, hist, cav>>

\* --- targetable: source is a player of the pool, target a player or a goal
TSpots == {<<500, 700>>, <<500, 600>>, <<500, 500>>, <<500, 400>>,
           <<550, 600>>, <<600, 500>>, <<674, 932>>, <<524, 707>>}
TDirs == {0, 1}
TPoint(s, t, d) == [x |-> Px(s[1]), y |-> Px(s[2]), team |-> t, dir |-> d]

InitTargetable ==
    /\ GameIdle
    /\ \E others \in [Handles \ {1} -> {TPoint(s, t, 0) : s \in TSpots, t \in Teams}],
          st \in Teams, sd \in TDirs, tp \in TSpots, tt \in Teams, hm \in BOOLEAN :
          LET src == TPoint(<<500, 700>>, st, sd)
              pool == [h \in Handles |-> IF h = 1 THEN src ELSE others[h]]
          IN call = [f |-> "targetable", done |-> FALSE,
                     target |-> TPoint(tp, tt, 0),
                     source |-> src,
                     game |-> [players_pool |-> pool,
                               teams |-> [t \in Teams |-> [human |-> hm /\ t = st]]],
                     out |-> FALSE]

CallTargetable ==
    /\ call.f = "targetable" /\ ~call.done
    /\ call' = [call EXCEPT !.done = TRUE,
                            !.out = targetable(call.target, call.source, call.game)]
    /\ UNCHANGED gameVars

SpecTargetable == InitTargetable /\ [][CallTargetable]_vars

\* --- ball_physics: one axis, from a position inside the bounds
PhysBounds == {PITCH_BOUNDS_X, PITCH_BOUNDS_Y, GOAL_BOUNDS_X, GOAL_BOUNDS_Y}
PhysVels == {F32(k, -1) : k \in -MaxPhysVel..MaxPhysVel}
              \cup {KICK_STRENGTH, FNeg(KICK_STRENGTH), Px(2000), Px(-2000),
                    MulDrag(Px(3)), F32(98305, -15), F32(-98305, -15),
                    F32(1, 26), F32(-1, 26)}
PhysOffsets == {Zero, F32(1, -1), Px(1), Px(3), Px(12), F32(32767, -14)}
MaxPhysCalls == 2

InitPhysics ==
    /\ GameIdle
    /\ \E b \in PhysBounds, o \in PhysOffsets, v \in PhysVels, hi \in BOOLEAN :
          call = [f |-> "ball_physics", n |-> 0, bounds |-> b,
                  pos |-> IF hi THEN FSub(b[2], o) ELSE FAdd(b[1], o), vel |-> v,
                  out |-> <<Zero, Zero>>]

\* the ball moves on: the next call starts from the previous result
CallPhysics ==
    /\ call.f = "ball_physics" /\ call.n < MaxPhysCalls
    /\ LET pos == IF call.n = 0 THEN call.pos ELSE call.out[1]
           vel == IF call.n = 0 THEN call.vel ELSE call.out[2]
       IN call' = [call EXCEPT !.n = @ + 1, !.pos = pos, !.vel = vel,
                               !.out = ball_physics(pos, vel, call.bounds)]
    /\ UNCHANGED gameVars

SpecPhysics == InitPhysics /\ [][CallPhysics]_vars

\* --- steps: two distances d1 <= d2
StepGrain == 25
StepDists == {Px(k * StepGrain) : k \in 0..MaxStepDist}
               \cup {F32(1, -2), Px(1), Px(11), KICK_STRENGTH, Px(12),
                     F32(11938032, -19), F32(11938040, -19), Px(562), Px(563)}

InitSteps ==
    /\ GameIdle
    /\ \E d1, d2 \in StepDists :
          /\ FLe(d1, d2)
          /\ call = [f |-> "steps", d1 |-> d1, d2 |-> d2,
                     a |-> steps_start(d1), b |-> steps_start(d2)]

\* one pass of the while loop in steps(d1) and in steps(d2), each while its
\* own condition holds
CallSteps ==
    /\ call.f = "steps"
    /\ steps_continue(call.a) \/ steps_continue(call.b)
    /\ call' = [call EXCEPT !.a = IF steps_continue(call.a) THEN steps_body(call.a) ELSE @,
                            !.b = IF steps_continue(call.b) THEN steps_body(call.b) ELSE @]
    /\ UNCHANGED gameVars

\* both loops have ended: a.steps = steps(d1), b.steps = steps(d2)
StepsDone == call.f = "steps" /\ ~steps_continue(call.a) /\ ~steps_continue(call.b)

SpecSteps == InitSteps /\ [][CallSteps]_vars


\* ------------------------------------------ properties of the functions
TIn == call.f = "targetable" /\ call.done
TSrc == call.source
TTgt == call.target
TN0 == safe_normalise(vsub(TTgt, TSrc))
THuman == call.game.teams[TSrc.team].human
\* p stands between source and target: 0 < d1 < d0 and dot(v0, v1) > 0.8
TBetween(p) == LET n1 == safe_normalise(vsub(p, TSrc))
               IN FGt(n1.d, Zero) /\ FLt(n1.d, TN0.d) /\ DotOver08(TN0.v, n1.v)
TPool == {call.game.players_pool[h] : h \in Handles}
\* in range and faced
TFacedAnyTeam == /\ FGt(TN0.d, Zero) /\ FLt(TN0.d, FInt(PASS_RANGE))
                 /\ DotOver08(TN0.v, angle_to_vec(TSrc.dir))
\* same team, in range, faced
TFaced == /\ TTgt.team = TSrc.team
          /\ FGt(TN0.d, Zero) /\ FLt(TN0.d, FInt(PASS_RANGE))
          /\ DotOver08(TN0.v, angle_to_vec(TSrc.dir))

\* C7: for a computer-controlled source, targetable is false whenever a player
\* of the team opposing the source stands between source and target, whatever
\* the target's team; and the result is what it would be with p's team
\* compared with the source's team instead of the target's.
C7_OpponentIntercepts ==
    (TIn /\ ~THuman) =>
        /\ (\E p \in TPool : p.team # TSrc.team /\ TBetween(p)) => call.out = FALSE
        /\ call.out = (TFaced /\ ~\E p \in TPool : p.team # TSrc.team /\ TBetween(p))

C7_Witness ==
    /\ TIn /\ ~THuman /\ call.out = FALSE
    /\ TTgt.team # TSrc.team
    /\ TFacedAnyTeam
    /\ \E p \in TPool : p.team # TSrc.team /\ TBetween(p)
    /\ ~\E p \in TPool : p.team # TTgt.team /\ TBetween(p)

\* C8: for a human-controlled source the result is exactly "same team,
\* 0 < d0 < 300, faced", whoever else is on the pitch; a target at the
\* source's position is never targetable; and what is targetable for a
\* computer-controlled source is targetable with the source's team human.
C8_HumanSource ==
    TIn =>
        /\ THuman => call.out = TFaced
        /\ IsZero(TN0.d) => call.out = FALSE
        /\ (~THuman /\ call.out) =>
              targetable(TTgt, TSrc,
                         [call.game EXCEPT !.teams[TSrc.team].human = TRUE])

C8_Witness ==
    /\ TIn /\ THuman /\ call.out = TRUE
    /\ \E p \in TPool : p.team # TSrc.team /\ TBetween(p)

PIn == call.f = "ball_physics" /\ call.n > 0
\* bounds.0 <= p <= bounds.1
PInside(p) == FLe(call.bounds[1], p) /\ FLe(p, call.bounds[2])

\* C9 as stated: from pos inside the bounds, ball_physics returns
\* (pos + vel, vel * DRAG) if pos + vel is inside them and (pos, -vel * DRAG)
\* if not; the returned position is inside the bounds.
C9_AxisStep ==
    (PIn /\ PInside(call.pos)) =>
        LET to == FAdd(call.pos, call.vel)
        IN /\ PInside(to) => call.out = <<to, MulDrag(call.vel)>>
           /\ ~PInside(to) => call.out = <<call.pos, FNeg(MulDrag(call.vel))>>
           /\ PInside(call.out[1])

\* C10: steps(0) = 0, and d1 <= d2 implies steps(d1) <= steps(d2).
C10_StepsMonotone ==
    StepsDone =>
        /\ FLe(call.d1, call.d2)
        /\ ~FGt(call.d1, Zero) => call.a.steps = 0
        /\ call.a.steps <= call.b.steps

C10_Witness ==
    /\ StepsDone /\ ~FGt(call.d1, Zero) /\ call.a.steps = 0
    /\ call.b.steps > 100 /\ FLe(call.b.vel, F32(1, -2)) /\ FGt(call.b.distance, Zero)

\* ------------------------------------------------- cavern: the Player
\* Player (player.rs:12-30) as the record [lives, fire_timer, hurt_timer,
\* health, blowing_orb, landed]; blowing_orb is the blown_frames of the orb
\* being blown, or NoOrb.  Position, velocity, facing and image are left out.
FIRE_DELAY == 20
HURT_LANDED == 100
HURT_START == 200
MAX_ORBS == 5
MAX_BLOWN == 120
BLOW_STEP == 4
RESET_HEALTH == 3
NEW_LIVES == 2
NoOrb == -1

Min(a, b) == IF a < b THEN a ELSE b

\* Player::new
new == [lives |-> NEW_LIVES, fire_timer |-> 0, hurt_timer |-> 0, health |-> 0,
        blowing_orb |-> NoOrb, landed |-> FALSE]

\* Player::reset
reset(p) == [p EXCEPT !.fire_timer = 0, !.hurt_timer = HURT_LANDED,
                      !.health = RESET_HEALTH, !.blowing_orb = NoOrb]

\* The orb condition as it would be without the limit on the list
may_fire_no_limit(p, n, k) == k.space_pressed /\ p.fire_timer <= 0

\* "is_key_pressed(KeyCode::Space) && self.fire_timer <= 0 && orbs.len() < 5"
may_fire(p, n, k) == k.space_pressed /\ p.fire_timer <= 0 /\ n < MAX_ORBS

\* The body of the orb creation: blowing_orb = Some(Orb::new(..)), an orb
\* whose blown_frames is b, and fire_timer = 20 (the push to orbs is counted
\* by player_update).
fire(p, b) == [p EXCEPT !.blowing_orb = b, !.fire_timer = FIRE_DELAY]

\* Player::update(orbs, grid, game_timer) on player p with n orbs in the list.
\* k is what the call reads from outside player.rs: the keys (space_pressed,
\* space_down, up: Up is down and vel_y is 0), the outcome of
\* GravityActor::update (lands: the player stands on a block afterwards,
\* fell: top() has reached one and a half screen heights) and the
\* blown_frames Orb::new gives a new orb (new_blown).
\* The result says also whether an orb was pushed and whether reset ran.
player_update(p, n, k) ==
    LET g == [p EXCEPT !.landed = IF p.health > 0 THEN k.lands ELSE @]
        t == [g EXCEPT !.fire_timer = @ - 1, !.hurt_timer = @ - 1]
        l == IF t.landed THEN [t EXCEPT !.hurt_timer = Min(@, HURT_LANDED)] ELSE t
        hurt == l.hurt_timer > HURT_LANDED
        respawn == hurt /\ l.health <= 0 /\ k.fell
        pushed == ~hurt /\ may_fire(l, n, k)
        a == IF hurt
             THEN IF respawn THEN reset([l EXCEPT !.lives = @ - 1]) ELSE l
             ELSE LET f == IF pushed THEN fire(l, k.new_blown) ELSE l
                  IN IF k.up /\ f.landed THEN [f EXCEPT !.landed = FALSE] ELSE f
        b == IF k.space_down
             THEN IF a.blowing_orb # NoOrb
                  THEN IF a.blowing_orb + BLOW_STEP >= MAX_BLOWN
                       THEN [a EXCEPT !.blowing_orb = NoOrb]
                       ELSE [a EXCEPT !.blowing_orb = @ + BLOW_STEP]
                  ELSE a
             ELSE [a EXCEPT !.blowing_orb = NoOrb]
    IN [p |-> b, orbs |-> IF pushed THEN n + 1 ELSE n, pushed |-> pushed, respawn |-> respawn]

\* The player as Player::new and reset leave it when a game starts, or later
\* in a level with the invulnerability over and maybe health lost; some orbs
\* may be in the list.
InitHealths == {1, RESET_HEALTH}
InitOrbs == {0, MAX_ORBS - 1, MAX_ORBS}
\* blown_frames of a new orb: Orb::new is outside player.rs, any start value
NewOrbBlown == {0, 6, MAX_BLOWN - BLOW_STEP}
Keys == [space_pressed : BOOLEAN, space_down : BOOLEAN, up : BOOLEAN,
         lands : BOOLEAN, fell : BOOLEAN, new_blown : NewOrbBlown]

InitCavern ==
    /\ BallIdle
    /\ call = NoCall
    /\ \E h \in InitHealths, ht \in {-1, HURT_LANDED}, n \in InitOrbs :
          /\ ht = HURT_LANDED => h = RESET_HEALTH
          /\ cav = [kind |-> "player",
                    p |-> [reset(new) EXCEPT !.hurt_timer = ht, !.health = h],
                    orbs |-> n,
                    n |-> 0,                \* Player::update calls so far
                    fresh |-> FALSE,        \* nothing happened since the last call
                    pushed |-> FALSE,       \* the last call pushed an orb
                    pre |-> [orbs |-> n, fire_timer |-> 0],  \* before the last call
                    since |-> FIRE_DELAY,   \* calls since the last push, up to FIRE_DELAY
                    prev |-> FALSE,         \* an orb was pushed before
                    gap |-> FIRE_DELAY,     \* calls from the push before to the last push
                    gap_prev |-> FALSE]     \* there was a push before the last push

cavVars == <<ball, players, acp, holdoff, nupd, ticked, hist, call>>

\* One frame's Player::update.
PlayerUpdate ==
    /\ cav.n < MaxPlayerUpdates
    /\ \E k \in Keys :
         \E r \in {player_update(cav.p, cav.orbs, k)} :
           cav' = [cav EXCEPT
                     !.p = r.p, !.orbs = r.orbs, !.n = @ + 1, !.fresh = TRUE, !.pushed = r.pushed,
                     !.pre = [orbs |-> cav.orbs, fire_timer |-> cav.p.fire_timer],
                     !.since = IF r.pushed THEN 0 ELSE Min(@ + 1, FIRE_DELAY),
                     !.prev = @ \/ r.pushed,
                     !.gap = IF r.pushed THEN Min(cav.since + 1, FIRE_DELAY) ELSE @,
                     !.gap_prev = IF r.pushed THEN cav.prev ELSE @]
    /\ UNCHANGED cavVars

\* The player is hurt between two updates.  The code that does it is outside
\* player.rs; what it leaves behind is what Player::update and Player::reset
\* say of it: "Hurt timer starts at 200, but drops to 100 once the player has
\* landed", "if health is zero, we're dropping out of the level", and a
\* player is "invulnerable for this many frames" while hurt_timer counts
\* down.
Hurt ==
    /\ cav.n < MaxPlayerUpdates
    /\ cav.p.hurt_timer < 0 /\ cav.p.health > 0
    /\ cav' = [cav EXCEPT !.p.hurt_timer = HURT_START, !.p.health = @ - 1,
                          !.p.landed = FALSE, !.fresh = FALSE]
    /\ UNCHANGED cavVars

\* Player::reset called between two updates.  It is a pub fn: whoever holds the
\* Player may call it at any time (a new game, a new level), and it leaves
\* lives and the orbs list alone.
ResetCall ==
    /\ cav.n < MaxPlayerUpdates
    /\ cav' = [cav EXCEPT !.p = reset(@), !.fresh = FALSE]
    /\ UNCHANGED cavVars

NextCavern == PlayerUpdate \/ Hurt \/ ResetCall

SpecCavern == InitCavern /\ [][NextCavern]_vars

\* ------------------------------------------ properties of the cavern Player
\* The state is the one a Player::update has just produced.
CavUpdated == cav.kind = "player" /\ cav.fresh

\* C19 as stated: between two pushes of an orb at least 20 calls of update
\* elapse, also when the player is hurt, loses a life and is reset in
\* between.  Player::reset sets fire_timer to 0, so it fails after a reset,
\* be it the one inside Player::update or a call between two updates.
C19_TwentyBetweenOrbs ==
    (CavUpdated /\ cav.pushed /\ cav.gap_prev) => cav.gap >= 20

\* C20: an update adds at most one orb to the list, and only when the list
\* held fewer than 5, fire_timer was <= 0 after its decrement and the player
\* is not hurt (hurt_timer <= 100); the list never holds more than 5.
C20_OrbLimit ==
    CavUpdated =>
        /\ cav.orbs <= 5
        /\ IF cav.pushed
           THEN /\ cav.orbs = cav.pre.orbs + 1
                /\ cav.pre.orbs < 5
                /\ cav.pre.fire_timer - 1 <= 0
                /\ cav.p.hurt_timer <= 100
           ELSE cav.orbs = cav.pre.orbs

C20_Witness ==
    /\ CavUpdated /\ cav.pushed /\ cav.orbs = 5 /\ cav.pre.orbs = 4
    /\ cav.p.fire_timer = FIRE_DELAY

====
